---- MODULE Spec2Model ----
(***************************************************************************)
(* Overdose dashboard: a model of the two App components of the repository *)
(* (the "session" variant with drug selection, src/unnamed/part_000, and   *)
(* the "auth" variant with the identity-service gate, src/src/App.jsx) and *)
(* of the Chart y-scale they share.                                        *)
(***************************************************************************)
EXTENDS Integers, Sequences, FiniteSets, TLC

VARIABLES
    \* session variant (src/unnamed/part_000)
    selectedDrugs,   \* useState(drugs): the array of selected drug names
    trail,           \* history: the last (at most two) UI operations, each with the selection before it
    \* auth variant (src/src/App.jsx)
    user,            \* useState(null)
    authLoading,     \* useState(true)
    authError,       \* useState('')
    email,           \* useState('')
    password,        \* useState('')
    mounted,         \* the component is mounted (state setters have an effect)
    subscribed,      \* the onAuthStateChanged subscription is live
    inflight,        \* identity-service calls awaiting completion, in order of issue
    escaped,         \* messages of rejections that left their handler uncaught
    lastEvent,       \* history: the last auth step taken
    \* Chart y-scale probe
    maxValue,        \* the maxValue prop given to Chart
    val,             \* the value given to yPos
    yOut             \* the result of yPos(val), or NoY before it is computed

vars == <<selectedDrugs, trail, user, authLoading, authError, email, password,
          mounted, subscribed, inflight, escaped, lastEvent, maxValue, val, yOut>>

sessionVars == <<selectedDrugs, trail>>
authVars == <<user, authLoading, authError, email, password, mounted, subscribed,
              inflight, escaped, lastEvent>>
chartVars == <<maxValue, val, yOut>>

-----------------------------------------------------------------------------
(* The static dataset, identical in both variants                          *)

monthOrder ==
    <<"2024-01", "2024-02", "2024-03", "2024-04", "2024-05", "2024-06",
      "2024-07", "2024-08", "2024-09", "2024-10", "2024-11", "2024-12">>

\* Object.keys(series), in insertion order
drugs ==
    <<"Fentanyl", "Heroin", "Prescription Opioids", "Cocaine", "Methamphetamine">>

series ==
    [d \in {"Fentanyl", "Heroin", "Prescription Opioids", "Cocaine", "Methamphetamine"} |->
        CASE d = "Fentanyl" -> <<142, 151, 158, 161, 169, 176, 181, 187, 193, 199, 205, 212>>
          [] d = "Heroin" -> <<88, 91, 93, 95, 99, 103, 104, 108, 110, 111, 113, 115>>
          [] d = "Prescription Opioids" -> <<96, 98, 100, 102, 105, 108, 110, 111, 114, 116, 118, 120>>
          [] d = "Cocaine" -> <<74, 76, 79, 82, 84, 86, 89, 91, 94, 96, 99, 101>>
          [] d = "Methamphetamine" -> <<65, 67, 69, 72, 74, 76, 78, 81, 83, 85, 87, 90>>]

palette_MisspelledKey ==
    [d \in {"Fentanyl", "Heroin", "Prescription Opiods", "Cocaine", "Methamphetamine"} |->
        CASE d = "Fentanyl" -> "#7c3aed"
          [] d = "Heroin" -> "#f97316"
          [] d = "Prescription Opiods" -> "#22c55e"
          [] d = "Cocaine" -> "#06b6d4"
          [] d = "Methamphetamine" -> "#e11d48"]

palette ==
    [d \in {"Fentanyl", "Heroin", "Prescription Opioids", "Cocaine", "Methamphetamine"} |->
        CASE d = "Fentanyl" -> "#7c3aed"
          [] d = "Heroin" -> "#f97316"
          [] d = "Prescription Opioids" -> "#22c55e"
          [] d = "Cocaine" -> "#06b6d4"
          [] d = "Methamphetamine" -> "#e11d48"]

\* monthOrder.flatMap((month, idx) => Object.entries(series).map(...)):
\* month-major, one row per (month, drug), deaths = values[idx]
overdoseData ==
    [k \in 1..(Len(monthOrder) * Len(drugs)) |->
        LET idx == ((k - 1) \div Len(drugs)) + 1
            j   == ((k - 1) % Len(drugs)) + 1
        IN  [month |-> monthOrder[idx], drug |-> drugs[j], deaths |-> series[drugs[j]][idx]]]

-----------------------------------------------------------------------------
(* Array helpers of the JavaScript runtime                                 *)

\* Array.prototype.includes
includes(arr, x) == \E i \in 1..Len(arr) : arr[i] = x

\* the set of elements of an array
Range(arr) == {arr[i] : i \in 1..Len(arr)}

\* rows.reduce((sum, entry) => sum + entry.deaths, 0)
RECURSIVE reduceDeaths(_)
reduceDeaths(rows) ==
    IF rows = <<>> THEN 0 ELSE rows[1].deaths + reduceDeaths(Tail(rows))

\* Math.round(n / d) for integers n >= 0, d > 0: floor(n/d + 1/2)
MathRoundDiv(n, d) == (2 * n + d) \div (2 * d)

-----------------------------------------------------------------------------
(* Session variant: derived view state                                     *)

filtered_NoFilter == overdoseData

\* overdoseData.filter((entry) => selectedDrugs.includes(entry.drug))
filtered == SelectSeq(overdoseData, LAMBDA entry : includes(selectedDrugs, entry.drug))

grandTotal_SkipsLastRow ==
    IF filtered = <<>> THEN 0 ELSE reduceDeaths(SubSeq(filtered, 1, Len(filtered) - 1))

grandTotal == reduceDeaths(filtered)

avgMonthly_Truncates ==
    IF Len(monthOrder) # 0 THEN grandTotal \div Len(monthOrder) ELSE 0

avgMonthly ==
    IF Len(monthOrder) # 0 THEN MathRoundDiv(grandTotal, Len(monthOrder)) ELSE 0

(* Auth variant: the same statistics over the unfiltered dataset           *)

filteredAuth == overdoseData

grandTotalAuth == reduceDeaths(filteredAuth)

avgMonthlyAuth ==
    IF Len(monthOrder) # 0 THEN MathRoundDiv(grandTotalAuth, Len(monthOrder)) ELSE 0

-----------------------------------------------------------------------------
(* Session variant: operations                                             *)

\* the history keeps the last two operations
Record(op, arg) ==
    LET e == [op |-> op, arg |-> arg, before |-> selectedDrugs]
    IN  IF Len(trail) < 2 THEN Append(trail, e) ELSE <<trail[2], e>>

handleToggle_NeverRemoves(drug) ==
    /\ selectedDrugs' = IF includes(selectedDrugs, drug)
                          THEN selectedDrugs
                          ELSE Append(selectedDrugs, drug)
    /\ trail' = Record("toggle", drug)
    /\ UNCHANGED <<authVars, chartVars>>

\* setSelectedDrugs((prev) => prev.includes(drug) ? prev.filter((d) => d !== drug) : [...prev, drug])
handleToggle(drug) ==
    /\ selectedDrugs' = IF includes(selectedDrugs, drug)
                          THEN SelectSeq(selectedDrugs, LAMBDA d : d # drug)
                          ELSE Append(selectedDrugs, drug)
    /\ trail' = Record("toggle", drug)
    /\ UNCHANGED <<authVars, chartVars>>

\* onClick={() => setSelectedDrugs(drugs)}
SelectAll ==
    /\ selectedDrugs' = drugs
    /\ trail' = Record("selectAll", "")
    /\ UNCHANGED <<authVars, chartVars>>

Clear_CopiesSelectAll ==
    /\ selectedDrugs' = drugs
    /\ trail' = Record("clear", "")
    /\ UNCHANGED <<authVars, chartVars>>

\* onClick={() => setSelectedDrugs([])}
Clear ==
    /\ selectedDrugs' = <<>>
    /\ trail' = Record("clear", "")
    /\ UNCHANGED <<authVars, chartVars>>

\* one checkbox per entry of drugs
Toggle == \E i \in 1..Len(drugs) : handleToggle(drugs[i])

-----------------------------------------------------------------------------
(* Values and bounds                                                       *)

NULL == "null"
\* yOut before Chart has rendered
NoY == [num |-> 0, den |-> 0]

\* the most identity-service calls in flight at once
MaxInFlight == 2
\* the chart probe draws maxValue from -MaxProbe..MaxProbe and val from 0..MaxProbe
MaxProbe == 8

-----------------------------------------------------------------------------
(* Chart: the linear y-scale                                               *)

width == 960
height == 420
margin == [top |-> 32, right |-> 32, bottom |-> 72, left |-> 64]
plotHeight == height - margin.top - margin.bottom

yPos_NoGuard(v) ==
    [num |-> (margin.top + plotHeight) * maxValue - plotHeight * v, den |-> maxValue]

\* yPos = (val) => margin.top + plotHeight - (plotHeight * val) / (maxValue > 0 ? maxValue : 1)
\* as the exact fraction num / den, den being the divisor the code uses
yPosAt(v, max) ==
    LET divisor == IF max > 0 THEN max ELSE 1
    IN  [num |-> (margin.top + plotHeight) * divisor - plotHeight * v, den |-> divisor]

\* yPos inside a Chart rendered with the prop maxValue
yPos(v) == yPosAt(v, maxValue)

\* Chart renders and evaluates yPos on a value
Render ==
    /\ yOut = NoY
    /\ yOut' = yPos(val)
    /\ UNCHANGED <<maxValue, val, sessionVars, authVars>>

-----------------------------------------------------------------------------
(* Session variant: what the chart card renders                            *)

\* stands for -Infinity, the value of Math.max() of no arguments: below every count
NegInfinity == -1000000

\* Math.max(...values)
RECURSIVE MathMax(_)
MathMax(values) ==
    IF values = <<>> THEN NegInfinity
    ELSE LET rest == MathMax(Tail(values))
         IN  IF values[1] > rest THEN values[1] ELSE rest

\* filtered.map((d) => d.deaths)
deathsOf(rows) == [i \in 1..Len(rows) |-> rows[i].deaths]

App_maxValue_FirstRow ==
    IF Len(filtered) = 0 THEN 1 ELSE filtered[1].deaths

\* the maxValue memo of App: if (!filtered.length) return 1; return Math.max(...)
App_maxValue ==
    IF Len(filtered) = 0 THEN 1 ELSE MathMax(deathsOf(filtered))

chartCard_ArrayTruthy == "Chart"

\* {filtered.length ? <Chart .../> : <div className="empty">...</div>}
chartCard == IF Len(filtered) # 0 THEN "Chart" ELSE "empty"

-----------------------------------------------------------------------------
(* Per-month totals and the latest month, in both variants                 *)

\* rows.filter((entry) => entry.month === month).reduce((sum, entry) => sum + entry.deaths, 0)
monthTotal(rows, month) ==
    reduceDeaths(SelectSeq(rows, LAMBDA entry : entry.month = month))

totalsByMonth_Unfiltered ==
    [i \in 1..Len(monthOrder) |->
        [month |-> monthOrder[i], total |-> monthTotal(overdoseData, monthOrder[i])]]

\* months.map((month) => ({ month, total: ... })) over the filtered rows
totalsByMonth ==
    [i \in 1..Len(monthOrder) |->
        [month |-> monthOrder[i], total |-> monthTotal(filtered, monthOrder[i])]]

totalsByMonthAuth ==
    [i \in 1..Len(monthOrder) |->
        [month |-> monthOrder[i], total |-> monthTotal(filteredAuth, monthOrder[i])]]

\* months[months.length - 1]
latestMonth == monthOrder[Len(monthOrder)]

\* totals.find((row) => row.month === month)?.total ?? 0
findTotal(totals, month) ==
    IF \E i \in 1..Len(totals) : totals[i].month = month
      THEN totals[CHOOSE i \in 1..Len(totals) :
                     /\ totals[i].month = month
                     /\ \A j \in 1..(i - 1) : totals[j].month # month].total
      ELSE 0

latestTotal == findTotal(totalsByMonth, latestMonth)

latestTotalAuth == findTotal(totalsByMonthAuth, latestMonth)

-----------------------------------------------------------------------------
(* Session variant: the series handed to Chart                             *)

\* rows.find((d) => d.drug === drug && d.month === month) ?? { month, deaths: 0 },
\* the search going on from index i
RECURSIVE findPointFrom(_, _, _, _)
findPointFrom(rows, i, drug, month) ==
    IF i > Len(rows) THEN [month |-> month, deaths |-> 0]
    ELSE IF rows[i].drug = drug /\ rows[i].month = month THEN rows[i]
    ELSE findPointFrom(rows, i + 1, drug, month)

findPoint(rows, drug, month) == findPointFrom(rows, 1, drug, month)

\* selectedDrugs.map((drug) => ({ drug, color: palette[drug] ?? '#0ea5e9', points: months.map(...) }))
dataByDrug ==
    LET rows == filtered
    IN  [k \in 1..Len(selectedDrugs) |->
            [drug   |-> selectedDrugs[k],
             color  |-> IF selectedDrugs[k] \in DOMAIN palette
                          THEN palette[selectedDrugs[k]] ELSE "#0ea5e9",
             points |-> [i \in 1..Len(monthOrder) |->
                            findPoint(rows, selectedDrugs[k], monthOrder[i])]]]

-----------------------------------------------------------------------------
(* Auth variant: the identity-service gate                                 *)

\* handles the identity service may deliver
Users == {"u1"}
\* err.message values of rejected calls
Messages == {"auth/invalid-email", "auth/network-request-failed"}
\* what may be typed in the two inputs
Emails == {"", "a@example.com"}
Passwords == {"", "secret"}

Event(type, op, msg, current) ==
    [type |-> type, op |-> op, msg |-> msg, current |-> current]

\* a call to the identity service, awaited by its handler; wrote: the state
\* variables the handler has written before the await
Call(op, wrote) == [op |-> op, email |-> email, password |-> password, wrote |-> wrote]

RemoveAt(q, i) == SubSeq(q, 1, i - 1) \o SubSeq(q, i + 1, Len(q))

\* a state setter of an unmounted component has no effect
SetState(old, new) == IF mounted THEN new ELSE old

\* onAuthStateChanged(auth, (current) => { setUser(current); setAuthLoading(false) })
AuthStateChanged(current) ==
    /\ subscribed
    /\ user' = SetState(user, current)
    /\ authLoading' = SetState(authLoading, FALSE)
    /\ lastEvent' = Event("notify", "", "", current)
    /\ UNCHANGED <<authError, email, password, mounted, subscribed, inflight, escaped,
                 sessionVars, chartVars>>

\* return () => unsubscribe(), run when the component is torn down
Unmount ==
    /\ mounted
    /\ mounted' = FALSE
    /\ subscribed' = FALSE
    /\ lastEvent' = Event("unmount", "", "", NULL)
    /\ UNCHANGED <<user, authLoading, authError, email, password, inflight, escaped,
                 sessionVars, chartVars>>

\* onChange={(e) => setEmail(e.target.value)}, the input shown while no user is set
SetEmail(e) ==
    /\ mounted /\ user = NULL
    /\ email # e
    /\ email' = e
    /\ lastEvent' = Event("input", "", "", NULL)
    /\ UNCHANGED <<user, authLoading, authError, password, mounted, subscribed, inflight, escaped,
                 sessionVars, chartVars>>

\* onChange={(e) => setPassword(e.target.value)}
SetPassword(p) ==
    /\ mounted /\ user = NULL
    /\ password # p
    /\ password' = p
    /\ lastEvent' = Event("input", "", "", NULL)
    /\ UNCHANGED <<user, authLoading, authError, email, mounted, subscribed, inflight, escaped,
                 sessionVars, chartVars>>

\* handleRegister up to its await: setAuthError(''), createUserWithEmailAndPassword(auth, email, password)
\* (the button is shown while no user is set and disabled while authLoading)
handleRegister ==
    /\ mounted /\ user = NULL /\ ~authLoading
    /\ Len(inflight) < MaxInFlight
    /\ authError' = ""
    /\ inflight' = Append(inflight, Call("register", {"authError"}))
    /\ lastEvent' = Event("call", "register", "", NULL)
    /\ UNCHANGED <<user, authLoading, email, password, mounted, subscribed, escaped,
                 sessionVars, chartVars>>

\* handleLogin up to its await: setAuthError(''), signInWithEmailAndPassword(auth, email, password)
handleLogin ==
    /\ mounted /\ user = NULL /\ ~authLoading
    /\ Len(inflight) < MaxInFlight
    /\ authError' = ""
    /\ inflight' = Append(inflight, Call("login", {"authError"}))
    /\ lastEvent' = Event("call", "login", "", NULL)
    /\ UNCHANGED <<user, authLoading, email, password, mounted, subscribed, escaped,
                 sessionVars, chartVars>>

\* handleLogout up to its await: signOut(auth) (the button is shown while a user is set)
handleLogout ==
    /\ mounted /\ user # NULL
    /\ Len(inflight) < MaxInFlight
    /\ inflight' = Append(inflight, Call("logout", {}))
    /\ lastEvent' = Event("call", "logout", "", NULL)
    /\ UNCHANGED <<user, authLoading, authError, email, password, mounted, subscribed, escaped,
                 sessionVars, chartVars>>

Fulfilled_SetsUser(i) ==
    /\ inflight' = RemoveAt(inflight, i)
    /\ user' = IF inflight[i].op = "logout" THEN NULL ELSE "u1"
    /\ lastEvent' = Event("fulfilled", inflight[i].op, "", NULL)
    /\ UNCHANGED <<authLoading, authError, email, password, mounted, subscribed, escaped,
                   sessionVars, chartVars>>

\* the awaited call i fulfils: its handler returns, having set nothing
Fulfilled(i) ==
    /\ inflight' = RemoveAt(inflight, i)
    /\ lastEvent' = Event("fulfilled", inflight[i].op, "", NULL)
    /\ UNCHANGED <<user, authLoading, authError, email, password, mounted, subscribed, escaped,
                 sessionVars, chartVars>>

\* the awaited call i of handleRegister or handleLogin rejects:
\* catch (err) { setAuthError(err.message) }
RejectedCaught(i, msg) ==
    /\ inflight[i].op \in {"register", "login"}
    /\ authError' = SetState(authError, msg)
    /\ inflight' = RemoveAt(inflight, i)
    /\ lastEvent' = Event("rejected", inflight[i].op, msg, NULL)
    /\ UNCHANGED <<user, authLoading, email, password, mounted, subscribed, escaped,
                 sessionVars, chartVars>>

\* the awaited signOut of handleLogout rejects: there is no try/catch around
\* the await, the promise handleLogout returned rejects and nothing handles it
RejectedLogout(i, msg) ==
    /\ inflight[i].op = "logout"
    /\ escaped' = escaped \cup {msg}
    /\ inflight' = RemoveAt(inflight, i)
    /\ lastEvent' = Event("rejected", "logout", msg, NULL)
    /\ UNCHANGED <<user, authLoading, authError, email, password, mounted, subscribed,
                 sessionVars, chartVars>>

Notify == \E current \in Users \cup {NULL} : AuthStateChanged(current)
TypeEmail == \E e \in Emails : SetEmail(e)
TypePassword == \E p \in Passwords : SetPassword(p)
Fulfil == \E i \in 1..Len(inflight) : Fulfilled(i)
RejectCaught == \E i \in 1..Len(inflight), msg \in Messages : RejectedCaught(i, msg)
RejectLogout == \E i \in 1..Len(inflight), msg \in Messages : RejectedLogout(i, msg)

-----------------------------------------------------------------------------
(* Specifications                                                          *)

InitSession == selectedDrugs = drugs /\ trail = <<>>

IdleAuth ==
    /\ user = NULL /\ authLoading = TRUE /\ authError = ""
    /\ email = "" /\ password = ""
    /\ mounted = TRUE /\ subscribed = TRUE
    /\ inflight = <<>> /\ escaped = {}
    /\ lastEvent = Event("mount", "", "", NULL)

IdleChart == maxValue = 1 /\ val = 0 /\ yOut = NoY

\* the session variant
Init == InitSession /\ IdleAuth /\ IdleChart

Next == Toggle \/ SelectAll \/ Clear

Spec == Init /\ [][Next]_vars

\* the auth variant
AuthInit == InitSession /\ IdleAuth /\ IdleChart

AuthNext ==
    \/ Notify \/ Unmount \/ TypeEmail \/ TypePassword
    \/ handleRegister \/ handleLogin \/ handleLogout
    \/ Fulfil \/ RejectCaught \/ RejectLogout

AuthSpec == AuthInit /\ [][AuthNext]_vars

\* the y-scale on every pair of a maximum and a value within the probe bound
ChartInit ==
    /\ InitSession /\ IdleAuth
    /\ maxValue \in (0 - MaxProbe)..MaxProbe
    /\ val \in 0..MaxProbe
    /\ yOut = NoY

ChartNext == Render

ChartSpec == ChartInit /\ [][ChartNext]_vars

-----------------------------------------------------------------------------
(* Properties of the session variant, checked under Spec                   *)

\* the drugs of the selection, as a set
Selection == Range(selectedDrugs)

\* the dataset rows, as a set
RowsOf(rows) == {rows[i] : i \in 1..Len(rows)}

\* the sum of one drug's literal series
RECURSIVE SumSeq(_)
SumSeq(s) == IF s = <<>> THEN 0 ELSE s[1] + SumSeq(Tail(s))

\* the sum of the literal series of a set of drugs
RECURSIVE SumSeries(_)
SumSeries(S) ==
    IF S = {} THEN 0
    ELSE LET d == CHOOSE x \in S : TRUE IN SumSeq(series[d]) + SumSeries(S \ {d})

LastOp == trail[Len(trail)]

\* C1: the filtered rows are exactly the dataset rows whose drug is selected,
\* so their count is the number of such rows: 12 per selected drug.
C1_FilteredIsSelectedRows ==
    /\ RowsOf(filtered) = {overdoseData[i] : i \in {k \in DOMAIN overdoseData : overdoseData[k].drug \in Selection}}
    /\ Len(filtered) = Cardinality({k \in DOMAIN overdoseData : overdoseData[k].drug \in Selection})
    /\ Len(filtered) = 12 * Cardinality(Selection)

\* a partial selection reached by toggling, with its 24 rows
C1_Witness ==
    /\ trail # <<>> /\ LastOp.op = "toggle"
    /\ Cardinality(Selection) = 2
    /\ Len(filtered) = 24

\* C2: two handleToggle(d) in a row leave the selection with the drugs it had
\* before them.
C2_ToggleTwiceRestoresSet ==
    (/\ Len(trail) = 2
     /\ trail[1].op = "toggle" /\ trail[2].op = "toggle"
     /\ trail[1].arg = trail[2].arg)
    => Selection = Range(trail[1].before)

\* a drug not selected, toggled in and out again, the array order changed on the way
C2_Witness ==
    /\ Len(trail) = 2
    /\ trail[1].op = "toggle" /\ trail[2].op = "toggle"
    /\ trail[1].arg = trail[2].arg
    /\ ~includes(trail[1].before, trail[1].arg)
    /\ trail[1].before # <<>>
    /\ trail[1].before # SubSeq(drugs, 1, Len(trail[1].before))

\* C3: the selection holds known drug names only, and every dataset row names a
\* drug of the series table and of the palette.
C3_SelectionAndRowsKnown ==
    /\ Selection \subseteq DOMAIN series
    /\ \A k \in DOMAIN overdoseData :
          overdoseData[k].drug \in (DOMAIN series \cap DOMAIN palette)

\* a selection re-grown by toggles after a Clear
C3_Witness ==
    /\ Len(trail) = 2 /\ trail[1].op = "toggle" /\ trail[2].op = "toggle"
    /\ Len(selectedDrugs) = 3
    /\ selectedDrugs[1] = "Methamphetamine"

\* C4: 'Select all' leaves the full set of known drugs, 'Clear' the empty
\* selection; 'Select all' then 'Clear' leaves no filtered row and a total of 0.
C4_SelectAllAndClear ==
    /\ (trail # <<>> /\ LastOp.op = "selectAll") => Selection = DOMAIN series
    /\ (trail # <<>> /\ LastOp.op = "clear") => selectedDrugs = <<>>
    /\ (Len(trail) = 2 /\ trail[1].op = "selectAll" /\ trail[2].op = "clear")
          => (filtered = <<>> /\ grandTotal = 0)

\* 'Select all' from a partial selection, then 'Clear'
C4_Witness ==
    /\ Len(trail) = 2 /\ trail[1].op = "selectAll" /\ trail[2].op = "clear"
    /\ Len(trail[1].before) \in 1..4
    /\ selectedDrugs = <<>>

\* C5: the grand total is the sum of the deaths of the rows of the selected
\* drugs; for the full selection, and in the auth variant always, it is 6640,
\* the sum of the literal series.
C5_GrandTotal ==
    /\ grandTotal = SumSeries(Selection)
    /\ Selection = DOMAIN series => grandTotal = 6640
    /\ grandTotalAuth = SumSeries(DOMAIN series)
    /\ grandTotalAuth = 6640

\* the full selection restored by toggles, in another order than the table's
C5_Witness ==
    /\ trail # <<>> /\ LastOp.op = "toggle"
    /\ Selection = DOMAIN series
    /\ selectedDrugs # drugs
    /\ grandTotal = 6640

\* C6: the average per month is the grand total divided by 12, rounded to the
\* nearest integer; for the full selection it is 553.
C6_AvgMonthly ==
    /\ 2 * (12 * avgMonthly - grandTotal) <= 12
    /\ 2 * (grandTotal - 12 * avgMonthly) <= 12
    /\ Selection = DOMAIN series => avgMonthly = 553
    /\ avgMonthlyAuth = 553

\* a selection whose quotient rounds up: Fentanyl alone, 2134 / 12 = 177.83
C6_Witness ==
    /\ trail # <<>>
    /\ selectedDrugs = <<"Fentanyl">>
    /\ avgMonthly = 178

-----------------------------------------------------------------------------
(* Properties of the Chart y-scale, checked under ChartSpec                *)

\* C7: yPos maps the supplied maximum to the top of the plot area (y = 32) and
\* 0 to the baseline (y = 348) whenever the maximum is positive; a maximum of 0
\* or less is replaced by the divisor 1, so the divisor is never 0.
C7_YScaleEnds ==
    yOut # NoY =>
        /\ yOut.den # 0
        /\ (maxValue > 0 /\ val = maxValue) => yOut.num = 32 * yOut.den
        /\ (maxValue > 0 /\ val = 0) => yOut.num = 348 * yOut.den
        /\ maxValue <= 0 => yOut.den = 1

\* the scale evaluated at a maximum greater than 1
C7_Witness ==
    /\ yOut # NoY
    /\ maxValue = 5 /\ val = 5
    /\ yOut = [num |-> 160, den |-> 5]

-----------------------------------------------------------------------------
(* Properties of the auth variant, checked under AuthSpec                  *)

\* C8: whenever one of the three identity-service calls rejects, the rejection
\* is caught in its handler and its message becomes the displayed error string;
\* no rejection leaves its handler uncaught.
C8_RejectionsCaught ==
    /\ (mounted /\ lastEvent.type = "rejected") => authError = lastEvent.msg
    /\ escaped = {}

\* C9: the user state is written by the session-change callback alone: a
\* notification leaves user equal to the value delivered and authLoading false;
\* authLoading starts true and never turns true again; once unsubscribed, user
\* and authLoading no longer change; no handler step changes user.
C9_UserSetByNotificationOnly ==
    /\ authLoading = TRUE
    /\ [][/\ user' # user => lastEvent'.type = "notify"
          /\ lastEvent'.type = "notify" =>
                (user' = lastEvent'.current /\ authLoading' = FALSE)
          /\ authLoading = FALSE => authLoading' = FALSE
          /\ subscribed = FALSE => (user' = user /\ authLoading' = authLoading)
          /\ lastEvent'.type \in {"call", "fulfilled", "rejected"} => user' = user
         ]_vars

\* a sign-in has been fulfilled and user is still null: the handler set nothing
C9_Witness ==
    /\ lastEvent.type = "fulfilled" /\ lastEvent.op = "login"
    /\ user = NULL /\ authLoading = FALSE
    /\ mounted

\* C10: no state variable is written by two identity-service operations that
\* are in flight together; no two in-flight register/sign-in calls both write
\* the error string.
C10_NoSharedWrite ==
    \A i, j \in 1..Len(inflight) :
        i # j => inflight[i].wrote \cap inflight[j].wrote = {}

-----------------------------------------------------------------------------
(* Properties of the session variant's chart card, checked under Spec      *)

\* C11: the chart is rendered exactly when the selection is not empty; with an
\* empty selection the placeholder is shown instead of the chart and the
\* maximum is the fallback 1, not the maximum of an empty list.
C11_ChartIffSelection ==
    /\ (chartCard = "Chart") <=> (selectedDrugs # <<>>)
    /\ selectedDrugs = <<>> =>
          (chartCard = "empty" /\ App_maxValue = 1 /\ App_maxValue # NegInfinity)
    /\ chartCard \in {"Chart", "empty"}

\* the last drug toggled off: the placeholder replaces the chart
C11_Witness ==
    /\ trail # <<>> /\ LastOp.op = "toggle"
    /\ Len(LastOp.before) = 1
    /\ selectedDrugs = <<>>
    /\ chartCard = "empty"

-----------------------------------------------------------------------------
(* Properties of the per-month totals, checked under Spec                  *)

\* the sum over a set of drugs of their literal counts of month number i
RECURSIVE MonthSum(_, _)
MonthSum(S, i) ==
    IF S = {} THEN 0
    ELSE LET d == CHOOSE x \in S : TRUE IN series[d][i] + MonthSum(S \ {d}, i)

\* the sum of the totals of a per-month list
RECURSIVE SumTotals(_)
SumTotals(totals) ==
    IF totals = <<>> THEN 0 ELSE totals[1].total + SumTotals(Tail(totals))

\* C12: the per-month totals list has one entry per month in the fixed order,
\* each the sum of the deaths of the filtered rows of that month; the totals add
\* up to the grand total, and the latest-month total is the total of 2024-12.
C12_TotalsByMonth ==
    LET totals     == totalsByMonth
        totalsAuth == totalsByMonthAuth
    IN  /\ Len(totals) = 12
        /\ \A i \in 1..12 :
              /\ totals[i].month = monthOrder[i]
              /\ totals[i].total = MonthSum(Selection, i)
        /\ SumTotals(totals) = grandTotal
        /\ latestMonth = "2024-12"
        /\ latestTotal = MonthSum(Selection, 12)
        /\ Len(totalsAuth) = 12
        /\ \A i \in 1..12 :
              /\ totalsAuth[i].month = monthOrder[i]
              /\ totalsAuth[i].total = MonthSum(DOMAIN series, i)
        /\ SumTotals(totalsAuth) = grandTotalAuth
        /\ latestTotalAuth = MonthSum(DOMAIN series, 12)

\* Heroin and Cocaine selected: 115 + 101 deaths in 2024-12
C12_Witness ==
    /\ trail # <<>> /\ LastOp.op = "toggle"
    /\ selectedDrugs = <<"Heroin", "Cocaine">>
    /\ latestTotal = 216
    /\ totalsByMonth[1] = [month |-> "2024-01", total |-> 162]

-----------------------------------------------------------------------------
(* Properties of the plotted series, checked under Spec                    *)

\* C13: with a drug selected, the maximum given to the chart is the largest
\* deaths value of the filtered rows; every selected drug has 12 points, in
\* month order, each a dataset row of that drug and never the zero placeholder;
\* so every plotted point lies in the plot area: 32 <= yPos(deaths) <= 348.
C13_PointsWithinPlot ==
    selectedDrugs # <<>> =>
        LET rows == filtered
            max  == App_maxValue
            data == dataByDrug
        IN  /\ \E k \in 1..Len(rows) : rows[k].deaths = max
            /\ \A k \in 1..Len(rows) : rows[k].deaths <= max
            /\ Len(data) = Len(selectedDrugs)
            /\ \A k \in 1..Len(data) :
                  /\ data[k].drug = selectedDrugs[k]
                  /\ Len(data[k].points) = 12
                  /\ \A i \in 1..12 :
                        LET point == data[k].points[i]
                            y == yPosAt(point.deaths, max)
                        IN  /\ point.month = monthOrder[i]
                            /\ DOMAIN point = {"month", "drug", "deaths"}
                            /\ point.drug = selectedDrugs[k]
                            /\ point.deaths = series[selectedDrugs[k]][i]
                            /\ y.den > 0
                            /\ 32 * y.den <= y.num
                            /\ y.num <= 348 * y.den

\* Methamphetamine then Fentanyl selected: the maximum 212 is not in the first
\* series, whose points stay below the top of the plot
C13_Witness ==
    /\ trail # <<>> /\ LastOp.op = "toggle"
    /\ selectedDrugs = <<"Methamphetamine", "Fentanyl">>
    /\ App_maxValue = 212
    /\ dataByDrug[2].points[12].deaths = 212
    /\ yPosAt(dataByDrug[2].points[12].deaths, App_maxValue).num = 32 * 212
    /\ chartCard = "Chart"

====
